---- MODULE Spec2Model ----
(***************************************************************************)
(* A model of cmdline::args (src/args.hpp), the command line argument      *)
(* vector with its read position, and of the two extraction operators      *)
(* operator>>(args&, T&) and operator>>(range_parser&&, Number&), with     *)
(* T = Number = int.                                                       *)
(*                                                                         *)
(* A std::string is a sequence of one-character strings, so that the       *)
(* stream extraction of an int is computed character by character.         *)
(* std::size_t is an unsigned integer of SizeBits bits: every sum the      *)
(* code computes on it is taken modulo SizeMod.                            *)
(***************************************************************************)
EXTENDS Integers, Sequences, FiniteSets, TLC

\* Bounds of the model.
MaxLen == 2          \* most strings one argument vector holds
SizeBits == 4        \* width of std::size_t in the model

SizeMod == 2 ^ SizeBits

\* The strings that occur as command line arguments.
Tokens == { <<"-", "v">>, <<"7">>, <<"3", "z">>, <<>> }
\* argv[0] of the process.
ProgName == <<"p">>
\* The arguments of peek(int), subarg/subcmd and range that are tried.
Offsets == (0 - (MaxLen + 1)) .. (MaxLen + 1)
Sizes == (0 .. (MaxLen + 1)) \cup ((SizeMod - MaxLen - 1) .. (SizeMod - 1))
RangeVals == {2, 5, 9}
\* The predicates handed to subarg_until / subcmd_until.
Predicates == {"is_option", "is_number"}
\* The value the caller's int holds before the first extraction.
InitTargets == {9}
\* The name and the stream handed to program_name(std::string) and
\* log(std::ostream&).
NewName == <<"n">>
Sinks == {"os"}
\* The strings and sizes of the caller that holds two args.
PairTokens == { <<"-", "v">>, <<"7">> }
PairSizes == 0 .. MaxLen

VARIABLES cur, target, written, last, kept

vars == <<cur, target, written, last, kept>>

-----------------------------------------------------------------------------
(* Characters and predicates *)

DigitChars == <<"0", "1", "2", "3", "4", "5", "6", "7", "8", "9">>

IsDigit(ch) == \E i \in 1..10 : DigitChars[i] = ch

DigitVal(ch) == (CHOOSE i \in 1..10 : DigitChars[i] = ch) - 1

IsSpace(ch) == ch = " "

\* bool (* predicate)(const std::string&): two functions a caller may pass.
Holds(predicate, str) ==
    IF predicate = "is_option"
    THEN Len(str) > 0 /\ str[1] = "-"
    ELSE Len(str) > 0 /\ IsDigit(str[1])

-----------------------------------------------------------------------------
(* class args *)

\* args::args()
args_default ==
    [_args |-> <<>>, _program_name |-> <<>>, _index |-> 0, _log |-> "cerr"]

\* args::args(argc, argv), argv a non-empty sequence of strings
args_main(argv) ==
    [_args |-> Tail(argv), _program_name |-> Head(argv), _index |-> 0,
     _log |-> "cerr"]

\* What a member call yields: the object afterwards, how the call ended,
\* the string returned (<<>> or <<str>>) and the args returned (<<>> or <<a>>).
Result(st, status, ret, child) ==
    [st |-> st, status |-> status, ret |-> ret, child |-> child]

Throw(st) == Result(st, "out_of_range", <<>>, <<>>)

size(a) == (Len(a._args) - a._index) % SizeMod

total_size(a) == Len(a._args)

peek(a) ==
    IF a._index >= Len(a._args)
    THEN Throw(a)
    ELSE Result(a, "ok", <<a._args[a._index + 1]>>, <<>>)

\* peek(int) that refuses every negative index
peek_index_forward_only(a, index) ==
    IF index < 0 \/ a._index + index >= Len(a._args)
    THEN Throw(a)
    ELSE Result(a, "ok", <<a._args[a._index + index + 1]>>, <<>>)

\* peek(int index): _index + index is computed in std::size_t
peek_index(a, index) ==
    LET pos == (a._index + index) % SizeMod
    IN  IF pos >= Len(a._args)
        THEN Throw(a)
        ELSE IF pos < 0
             THEN Throw(a)
             ELSE Result(a, "ok", <<a._args[pos + 1]>>, <<>>)

\* shift with its test left out
shift_unchecked(a) ==
    Result([a EXCEPT !._index = (@ + 1) % SizeMod], "ok", <<>>, <<>>)

shift(a) ==
    IF a._index >= Len(a._args)
    THEN Throw(a)
    ELSE Result([a EXCEPT !._index = (@ + 1) % SizeMod], "ok", <<>>, <<>>)

\* next that shifts before it peeks
next_shift_first(a) ==
    LET s == shift(a)
    IN  IF s.status # "ok"
        THEN s
        ELSE LET p == peek(s.st)
             IN  IF p.status # "ok" THEN p ELSE Result(s.st, "ok", p.ret, <<>>)

next(a) ==
    LET p == peek(a)
    IN  IF p.status # "ok"
        THEN p
        ELSE LET s == shift(p.st)
             IN  IF s.status # "ok" THEN s ELSE Result(s.st, "ok", p.ret, <<>>)

\* push_back that puts the string in front
push_back_front(a, str) ==
    Result([a EXCEPT !._args = <<str>> \o @], "ok", <<>>, <<>>)

push_back(a, str) ==
    Result([a EXCEPT !._args = Append(@, str)], "ok", <<>>, <<>>)

\* void args::program_name(const std::string&)
set_program_name(a, name) ==
    Result([a EXCEPT !._program_name = name], "ok", <<>>, <<>>)

\* void args::log(std::ostream&)
set_log(a, os) ==
    Result([a EXCEPT !._log = os], "ok", <<>>, <<>>)

\* What constructing std::vector<std::string>(first, last) with last before
\* first does: undefined behaviour; the standard libraries throw from the
\* allocation of a negative length, a checked build stops the process.
VectorRangeFailures == {"length_error", "bad_alloc", "terminated"}

\* subarg that moves to the end before it throws
subarg_move_then_throw(a, sz) ==
    IF a._index + sz >= Len(a._args) + 1
    THEN {Throw([a EXCEPT !._index = Len(a._args)])}
    ELSE {Result([a EXCEPT !._index = (@ + sz) % SizeMod], "ok", <<>>,
                 <<[args_default EXCEPT
                      !._args = SubSeq(a._args, a._index + 1,
                                       a._index + sz)]>>)}

\* subarg whose test is _index + size >= _args.size()
subarg_off_by_one(a, sz) ==
    IF a._index + sz >= Len(a._args)
    THEN {Throw(a)}
    ELSE {Result([a EXCEPT !._index = (@ + sz) % SizeMod], "ok", <<>>,
                 <<[args_default EXCEPT
                      !._args = SubSeq(a._args, a._index + 1,
                                       a._index + sz)]>>)}

\* subarg that goes on after a sum that wrapped: an empty vector, and the
\* position moved by size modulo the width
subarg_wrap_proceeds(a, sz) ==
    IF (a._index + sz) % SizeMod >= (Len(a._args) + 1) % SizeMod
    THEN {Throw(a)}
    ELSE IF a._index + sz >= SizeMod
         THEN {Result([a EXCEPT !._index = (@ + sz) % SizeMod], "ok", <<>>,
                      <<args_default>>)}
         ELSE {Result([a EXCEPT !._index = (@ + sz) % SizeMod], "ok", <<>>,
                      <<[args_default EXCEPT
                           !._args = SubSeq(a._args, a._index + 1,
                                            a._index + sz)]>>)}

\* subarg whose vector is given the log of the args it is taken from
subarg_inheriting_log(a, sz) ==
    IF (a._index + sz) % SizeMod >= (Len(a._args) + 1) % SizeMod
    THEN {Throw(a)}
    ELSE IF a._index + sz >= SizeMod
         THEN {Result(a, e, <<>>, <<>>) : e \in VectorRangeFailures}
         ELSE {Result([a EXCEPT !._index = (@ + sz) % SizeMod], "ok", <<>>,
                      <<[args_default EXCEPT
                           !._args = SubSeq(a._args, a._index + 1,
                                            a._index + sz),
                           !._log = a._log]>>)}

\* args::subarg(size): the set of its possible outcomes
subarg(a, sz) ==
    IF (a._index + sz) % SizeMod >= (Len(a._args) + 1) % SizeMod
    THEN {Throw(a)}
    ELSE IF a._index + sz >= SizeMod
         THEN {Result(a, e, <<>>, <<>>) : e \in VectorRangeFailures}
         ELSE {Result([a EXCEPT !._index = (@ + sz) % SizeMod], "ok", <<>>,
                      <<[args_default EXCEPT
                           !._args = SubSeq(a._args, a._index + 1,
                                            a._index + sz)]>>)}

\* The loop of subarg_until with the break after the increment: the string
\* the predicate holds of is counted too.
RECURSIVE until_size_inclusive(_, _, _)
until_size_inclusive(strs, it, predicate) ==
    IF it > Len(strs)
    THEN 0
    ELSE IF Holds(predicate, strs[it])
         THEN 1
         ELSE 1 + until_size_inclusive(strs, it + 1, predicate)

\* The loop of subarg_until: the number of strings from position it (1-based)
\* on, up to the first one the predicate holds of.
RECURSIVE until_size(_, _, _)
until_size(strs, it, predicate) ==
    IF it > Len(strs)
    THEN 0
    ELSE IF Holds(predicate, strs[it])
         THEN 0
         ELSE 1 + until_size(strs, it + 1, predicate)

subarg_until(a, predicate) ==
    LET taken == until_size(a._args, a._index + 1, predicate)
    IN  Result([a EXCEPT !._index = (@ + taken) % SizeMod], "ok", <<>>,
               <<[args_default EXCEPT
                    !._args = SubSeq(a._args, a._index + 1, a._index + taken)]>>)

\* args::subcmd(size): the set of its possible outcomes
subcmd(a, sz) ==
    LET name == next(a)
    IN  IF name.status # "ok"
        THEN {name}
        ELSE {IF r.status # "ok"
              THEN r
              ELSE Result(r.st, "ok", <<>>,
                          <<[r.child[1] EXCEPT !._program_name = name.ret[1]]>>)
              : r \in subarg(name.st, sz)}

\* subcmd_until that takes the name with peek and forms the subarg first
subcmd_until_name_tested(a, predicate) ==
    LET name == peek(a)
    IN  IF name.status # "ok"
        THEN name
        ELSE LET r == subarg_until(a, predicate)
                 n == next(r.st)
             IN  Result(IF n.status = "ok" THEN n.st ELSE r.st, "ok", <<>>,
                        <<[r.child[1] EXCEPT !._program_name = name.ret[1]]>>)

subcmd_until(a, predicate) ==
    LET name == next(a)
    IN  IF name.status # "ok"
        THEN name
        ELSE LET r == subarg_until(name.st, predicate)
             IN  Result(r.st, "ok", <<>>,
                        <<[r.child[1] EXCEPT !._program_name = name.ret[1]]>>)

-----------------------------------------------------------------------------
(* Stream extraction of an int: std::stringstream stream(str); stream >> t *)

\* The first position from it on (1-based) that holds no white space.
RECURSIVE skip_ws(_, _)
skip_ws(str, it) ==
    IF it <= Len(str) /\ IsSpace(str[it]) THEN skip_ws(str, it + 1) ELSE it

\* The first position from it on (1-based) that holds no digit.
RECURSIVE skip_digits(_, _)
skip_digits(str, it) ==
    IF it <= Len(str) /\ IsDigit(str[it]) THEN skip_digits(str, it + 1) ELSE it

\* The number the digits str[from .. to-1] denote, acc being the digits before.
RECURSIVE digits_value(_, _, _, _)
digits_value(str, from, to, acc) ==
    IF from >= to
    THEN acc
    ELSE digits_value(str, from + 1, to, 10 * acc + DigitVal(str[from]))

\* stream >> t that leaves t alone whenever it fails (num_get of C++98)
stream_extract_keep(str) ==
    LET start == skip_ws(str, 1)
        signed == start <= Len(str) /\ str[start] \in {"+", "-"}
        first == IF signed THEN start + 1 ELSE start
        stop == skip_digits(str, first)
        magnitude == digits_value(str, first, stop, 0)
    IN  IF start > Len(str) \/ stop = first
        THEN [stored |-> FALSE, value |-> 0, fail |-> TRUE,
              eof |-> stop > Len(str), tellg |-> stop - 1]
        ELSE [stored |-> TRUE,
              value |-> IF signed /\ str[start] = "-"
                        THEN 0 - magnitude ELSE magnitude,
              fail |-> FALSE, eof |-> stop > Len(str), tellg |-> stop - 1]

\* stream >> t for an int t (num_get of C++11): stored tells whether t is
\* written, value what is written, fail and eof are the stream's bits
\* afterwards and tellg the number of characters read.  A string with no
\* character but white space fails in the sentry and leaves t alone; one with
\* no digit where a number has to start fails and stores 0.  The strings of
\* the model are too short to overflow an int.
stream_extract(str) ==
    LET start == skip_ws(str, 1)
        signed == start <= Len(str) /\ str[start] \in {"+", "-"}
        first == IF signed THEN start + 1 ELSE start
        stop == skip_digits(str, first)
        magnitude == digits_value(str, first, stop, 0)
    IN  IF start > Len(str)
        THEN [stored |-> FALSE, value |-> 0, fail |-> TRUE, eof |-> TRUE,
              tellg |-> Len(str)]
        ELSE IF stop = first
             THEN [stored |-> TRUE, value |-> 0, fail |-> TRUE,
                   eof |-> stop > Len(str), tellg |-> stop - 1]
             ELSE [stored |-> TRUE,
                   value |-> IF signed /\ str[start] = "-"
                             THEN 0 - magnitude ELSE magnitude,
                   fail |-> FALSE, eof |-> stop > Len(str),
                   tellg |-> stop - 1]

\* One line written to a log: the stream, the fixed words, the string put
\* beside them and the number printed (0 where the line has none).
Line(os, msg, text, bound) ==
    [sink |-> os, msg |-> msg, text |-> text, bound |-> bound]

\* What an extraction yields: the args afterwards, how the call ended, the
\* value of the caller's variable afterwards and the lines written.
Extracted(st, status, t, out) ==
    [st |-> st, status |-> status, target |-> t, out |-> out]

\* The extraction that reports a missing string in the log instead of
\* letting std::out_of_range through
extract_reporting(a, t) ==
    LET str == next(a)
    IN  IF str.status # "ok"
        THEN Extracted(str.st, "ok", t,
               <<Line(str.st._log, "Error: could not parse", <<>>, 0)>>)
        ELSE LET stream == stream_extract(str.ret[1])
                 t1 == IF stream.stored THEN stream.value ELSE t
             IN  IF stream.fail
                 THEN Extracted(str.st, "ok", t1,
                        <<Line(str.st._log, "Error: could not parse",
                               str.ret[1], 0)>>)
                 ELSE IF ~stream.eof
                      THEN Extracted(str.st, "ok", t1,
                             <<Line(str.st._log,
                                    "Warning: partially parsed string",
                                    SubSeq(str.ret[1], stream.tellg + 1,
                                           Len(str.ret[1])), 0)>>)
                      ELSE Extracted(str.st, "ok", t1, <<>>)

\* template <typename T> args & operator>>(args & a, T & t), T = int
extract(a, t) ==
    LET str == next(a)
    IN  IF str.status # "ok"
        THEN Extracted(str.st, str.status, t, <<>>)
        ELSE LET stream == stream_extract(str.ret[1])
                 t1 == IF stream.stored THEN stream.value ELSE t
             IN  IF stream.fail
                 THEN Extracted(str.st, "ok", t1,
                        <<Line(str.st._log, "Error: could not parse",
                               str.ret[1], 0)>>)
                 ELSE IF ~stream.eof
                      THEN Extracted(str.st, "ok", t1,
                             <<Line(str.st._log,
                                    "Warning: partially parsed string",
                                    SubSeq(str.ret[1], stream.tellg + 1,
                                           Len(str.ret[1])), 0)>>)
                      ELSE Extracted(str.st, "ok", t1, <<>>)

\* class range_parser; args::range(min) and args::range(min, max).  The
\* bounds tried are whole numbers, which the conversions double -> long long
\* -> double of the constructors leave as they are.
range_parser(min, max) == [min |-> min, max |-> max]

range1(min) == range_parser(min, min)

range2(min, max) == range_parser(min, max)

\* The range extraction that checks the range only of a value it could read
extract_range_parsed_only(a, range, n) ==
    LET before == IF size(a) < total_size(a)
                  THEN peek_index(a, 0 - 1)
                  ELSE Result(a, "ok", <<>>, <<>>)
        error == IF before.ret = <<>>
                 THEN <<"Error: number">>
                 ELSE <<"Error: argument to ">> \o before.ret[1]
        e == extract(a, n)
        unread == e.out # <<>> /\ e.out[1].msg = "Error: could not parse"
        low == IF ~unread /\ e.target < range.min
               THEN <<Line(e.st._log, "must be greater than", error,
                           range.min)>>
               ELSE <<>>
        high == IF ~unread /\ range.min < range.max /\ range.max < e.target
                THEN <<Line(e.st._log, "must be smaller than", error,
                            range.max)>>
                ELSE <<>>
    IN  IF before.status # "ok"
        THEN Extracted(a, before.status, n, <<>>)
        ELSE IF e.status # "ok"
             THEN e
             ELSE Extracted(e.st, "ok", e.target, e.out \o low \o high)

\* The range extraction that rejects a value outside the range: the caller's
\* variable keeps its prior value.
extract_range_rejecting(a, range, n) ==
    LET before == IF size(a) < total_size(a)
                  THEN peek_index(a, 0 - 1)
                  ELSE Result(a, "ok", <<>>, <<>>)
        error == IF before.ret = <<>>
                 THEN <<"Error: number">>
                 ELSE <<"Error: argument to ">> \o before.ret[1]
        e == extract(a, n)
        low == IF e.target < range.min
               THEN <<Line(e.st._log, "must be greater than", error,
                           range.min)>>
               ELSE <<>>
        high == IF range.min < range.max /\ range.max < e.target
                THEN <<Line(e.st._log, "must be smaller than", error,
                            range.max)>>
                ELSE <<>>
    IN  IF before.status # "ok"
        THEN Extracted(a, before.status, n, <<>>)
        ELSE IF e.status # "ok"
             THEN e
             ELSE Extracted(e.st, "ok",
                            IF low \o high = <<>> THEN e.target ELSE n,
                            e.out \o low \o high)

\* The range extraction that builds the words of its messages after the
\* extraction, from the position behind the value.
extract_range_prefix_after(a, range, n) ==
    LET e == extract(a, n)
        before == IF size(e.st) < total_size(e.st)
                  THEN peek_index(e.st, 0 - 1)
                  ELSE Result(e.st, "ok", <<>>, <<>>)
        error == IF before.ret = <<>>
                 THEN <<"Error: number">>
                 ELSE <<"Error: argument to ">> \o before.ret[1]
        low == IF e.target < range.min
               THEN <<Line(e.st._log, "must be greater than", error,
                           range.min)>>
               ELSE <<>>
        high == IF range.min < range.max /\ range.max < e.target
                THEN <<Line(e.st._log, "must be smaller than", error,
                            range.max)>>
                ELSE <<>>
    IN  IF e.status # "ok"
        THEN e
        ELSE Extracted(e.st, "ok", e.target, e.out \o low \o high)

\* template <typename Number> void operator>>(range_parser && range, Number & n)
extract_range(a, range, n) ==
    LET before == IF size(a) < total_size(a)
                  THEN peek_index(a, 0 - 1)
                  ELSE Result(a, "ok", <<>>, <<>>)
        error == IF before.ret = <<>>
                 THEN <<"Error: number">>
                 ELSE <<"Error: argument to ">> \o before.ret[1]
        e == extract(a, n)
        low == IF e.target < range.min
               THEN <<Line(e.st._log, "must be greater than", error,
                           range.min)>>
               ELSE <<>>
        high == IF range.min < range.max /\ range.max < e.target
                THEN <<Line(e.st._log, "must be smaller than", error,
                            range.max)>>
                ELSE <<>>
    IN  IF before.status # "ok"
        THEN Extracted(a, before.status, n, <<>>)
        ELSE IF e.status # "ok"
             THEN e
             ELSE Extracted(e.st, "ok", e.target, e.out \o low \o high)

-----------------------------------------------------------------------------
(* The caller: one action for each call it can make on its object *)

\* The sequences over S of length at most n.
SeqsUpTo(S, n) == UNION {[1..k -> S] : k \in 0..n}

NoStr == <<>>

\* The record of a call: the operation, its arguments, how it ended, what it
\* returned (a string, an args), and the object and the caller's variable as
\* they were before it.
Called(op, n, m, s, status, ret, child) ==
    [op |-> op, n |-> n, m |-> m, s |-> s, status |-> status,
     ret |-> ret, child |-> child, pre |-> cur, preTarget |-> target]

\* A process that was stopped makes no further call.
Running == last.status # "terminated"

\* A call of a member whose strings are one vector with those of the other
\* args: a string pushed to one is pushed to both
Member_shared_strings(op, n, s, r) ==
    /\ cur' = r.st
    /\ last' = Called(op, n, 0, s, r.status, r.ret, r.child)
    /\ written' = <<>>
    /\ kept' = IF kept # <<>> /\ Len(r.st._args) > Len(cur._args)
               THEN <<[kept[1] EXCEPT !.object._args = Append(@, s)]>>
               ELSE kept
    /\ UNCHANGED target

\* A call of a member: r is what the member yields. The members of an args
\* are values, so no other args changes.
Member(op, n, s, r) ==
    /\ cur' = r.st
    /\ last' = Called(op, n, 0, s, r.status, r.ret, r.child)
    /\ written' = <<>>
    /\ UNCHANGED <<target, kept>>

\* A call of an extraction operator: e is what the operator yields.
Operator(op, n, m, e) ==
    /\ cur' = e.st
    /\ target' = e.target
    /\ written' = e.out
    /\ last' = Called(op, n, m, NoStr, e.status, <<>>, <<>>)
    /\ UNCHANGED kept

Init ==
    /\ \E argv \in SeqsUpTo(Tokens, MaxLen) : cur = args_main(<<ProgName>> \o argv)
    /\ target \in InitTargets
    /\ written = <<>>
    /\ last = [op |-> "args", n |-> 0, m |-> 0, s |-> NoStr, status |-> "ok",
               ret |-> <<>>, child |-> <<>>, pre |-> args_default,
               preTarget |-> target]
    /\ kept = <<>>

CallPeek ==
    /\ Running
    /\ Member("peek", 0, NoStr, peek(cur))

CallPeekIndex(index) ==
    /\ Running
    /\ Member("peek_index", index, NoStr, peek_index(cur, index))

CallShift ==
    /\ Running
    /\ Member("shift", 0, NoStr, shift(cur))

CallNext ==
    /\ Running
    /\ Member("next", 0, NoStr, next(cur))

CallPushBack(str) ==
    /\ Running
    /\ Len(cur._args) < MaxLen
    /\ Member("push_back", 0, str, push_back(cur, str))

CallSubarg(sz) ==
    /\ Running
    /\ \E r \in subarg(cur, sz) : Member("subarg", sz, NoStr, r)

CallSubargUntil(predicate) ==
    /\ Running
    /\ Member("subarg_until", 0, <<predicate>>, subarg_until(cur, predicate))

CallSubcmd(sz) ==
    /\ Running
    /\ \E r \in subcmd(cur, sz) : Member("subcmd", sz, NoStr, r)

CallSubcmdUntil(predicate) ==
    /\ Running
    /\ Member("subcmd_until", 0, <<predicate>>, subcmd_until(cur, predicate))

CallExtract ==
    /\ Running
    /\ Operator("extract", 0, 0, extract(cur, target))

CallExtractRange1(min) ==
    /\ Running
    /\ Operator("extract_range", min, min,
                extract_range(cur, range1(min), target))

CallExtractRange2(min, max) ==
    /\ Running
    /\ Operator("extract_range", min, max,
                extract_range(cur, range2(min, max), target))

\* The caller goes on with the args the last call returned: args is copied
\* member by member.
UseReturned ==
    /\ Running
    /\ last.child # <<>>
    /\ cur' = last.child[1]
    /\ last' = Called("copy", 0, 0, NoStr, "ok", <<>>, <<>>)
    /\ written' = <<>>
    /\ UNCHANGED <<target, kept>>

Next ==
    \/ CallPeek
    \/ \E index \in Offsets : CallPeekIndex(index)
    \/ CallShift
    \/ CallNext
    \/ \E str \in Tokens : CallPushBack(str)
    \/ \E sz \in Sizes : CallSubarg(sz)
    \/ \E predicate \in Predicates : CallSubargUntil(predicate)
    \/ \E sz \in Sizes : CallSubcmd(sz)
    \/ \E predicate \in Predicates : CallSubcmdUntil(predicate)
    \/ CallExtract
    \/ \E min \in RangeVals : CallExtractRange1(min)
    \/ \E min \in RangeVals, max \in RangeVals : CallExtractRange2(min, max)
    \/ UseReturned

Spec == Init /\ [][Next]_vars

-----------------------------------------------------------------------------
(* The caller that holds two args: the one it calls, cur, and the one it   *)
(* keeps beside it, kept: an args a call returned, or the args it came     *)
(* from.                                                                   *)

CallProgramName(name) ==
    /\ Running
    /\ Member("program_name", 0, name, set_program_name(cur, name))

CallLog(os) ==
    /\ Running
    /\ Member("log", 0, <<os>>, set_log(cur, os))

\* The caller stores the args the last call returned in a variable of its
\* own.
KeepReturned ==
    /\ Running
    /\ kept = <<>>
    /\ last.child # <<>>
    /\ kept' = <<[object |-> last.child[1], returned |-> TRUE]>>
    /\ last' = Called("keep", 0, 0, NoStr, "ok", <<>>, <<>>)
    /\ written' = <<>>
    /\ UNCHANGED <<cur, target>>

\* The caller turns to the other of its two args.
Turn ==
    /\ Running
    /\ kept # <<>>
    /\ cur' = kept[1].object
    /\ kept' = <<[object |-> cur, returned |-> ~kept[1].returned]>>
    /\ last' = Called("turn", 0, 0, NoStr, "ok", <<>>, <<>>)
    /\ written' = <<>>
    /\ UNCHANGED target

InitPair ==
    /\ \E argv \in SeqsUpTo(PairTokens, MaxLen) :
          cur = args_main(<<ProgName>> \o argv)
    /\ target \in InitTargets
    /\ written = <<>>
    /\ last = [op |-> "args", n |-> 0, m |-> 0, s |-> NoStr, status |-> "ok",
               ret |-> <<>>, child |-> <<>>, pre |-> args_default,
               preTarget |-> target]
    /\ kept = <<>>

NextPair ==
    \/ CallShift
    \/ CallNext
    \/ \E str \in PairTokens : CallPushBack(str)
    \/ CallProgramName(NewName)
    \/ \E sz \in PairSizes : CallSubarg(sz)
    \/ \E predicate \in Predicates : CallSubargUntil(predicate)
    \/ \E sz \in PairSizes : CallSubcmd(sz)
    \/ \E predicate \in Predicates : CallSubcmdUntil(predicate)
    \/ KeepReturned
    \/ Turn

SpecPair == InitPair /\ [][NextPair]_vars

-----------------------------------------------------------------------------
(* The caller that hands its own stream to log() and goes on with the args *)
(* its calls return.                                                       *)

NextLog ==
    \/ CallNext
    \/ \E os \in Sinks : CallLog(os)
    \/ \E sz \in PairSizes : CallSubarg(sz)
    \/ \E predicate \in Predicates : CallSubargUntil(predicate)
    \/ \E sz \in PairSizes : CallSubcmd(sz)
    \/ \E predicate \in Predicates : CallSubcmdUntil(predicate)
    \/ UseReturned

SpecLog == InitPair /\ [][NextLog]_vars

-----------------------------------------------------------------------------
(* Properties *)

\* The position before the last call, the strings before it and the number of
\* strings that were left.
PreIndex == last.pre._index
PreArgs == last.pre._args
PreLeft == Len(PreArgs) - PreIndex

\* The last call ended with std::out_of_range.
Failed == last.status = "out_of_range"
Succeeded == last.status = "ok"

\* The args the last call returned.
Returned == last.child[1]

\* The position of x lies within its strings and size() counts what is left.
WithinBounds(x) ==
    /\ 0 <= x._index
    /\ x._index <= Len(x._args)
    /\ size(x) + x._index = total_size(x)

\* C1: after any sequence of calls, successful or failing, the position is
\* between 0 and the number of strings and size() + position = total_size();
\* the same holds of every args a call returns.
C1_PositionWithinBounds ==
    /\ WithinBounds(cur)
    /\ last.child # <<>> => WithinBounds(Returned)

\* C1 witness: a subcmd failed after strings were consumed, the position
\* being at the end.
C1_Witness ==
    /\ last.op = "subcmd"
    /\ Failed
    /\ cur._index = Len(cur._args)
    /\ cur._index > 0

\* C2: a subcmd(size) that fails with std::out_of_range leaves the position,
\* the strings and the name as they were before the call.
C2_SubcmdAtomicOnFailure ==
    (last.op = "subcmd" /\ Failed) => cur = last.pre

\* The call is one of peek(), peek(int), shift(), next(), subarg(size).
PrimitiveCall == last.op \in {"peek", "peek_index", "shift", "next", "subarg"}

\* C3: a peek(), peek(int), shift(), next() or subarg(size) that fails with
\* std::out_of_range leaves position, strings and name as they were, size()
\* included, and writes nothing to the log.
C3_FailedPrimitiveChangesNothing ==
    (PrimitiveCall /\ Failed) =>
        /\ cur._index = PreIndex
        /\ cur._args = PreArgs
        /\ cur._program_name = last.pre._program_name
        /\ size(cur) = size(last.pre)
        /\ written = <<>>
        /\ target = last.preTarget

\* C3 witness: a subarg failed with strings left and strings consumed.
C3_Witness ==
    /\ last.op = "subarg"
    /\ Failed
    /\ PreIndex > 0
    /\ PreLeft > 0

\* C4: subarg(size) succeeds exactly if size <= size(); then the args returned
\* holds the size strings from the position on, in order, has an empty name
\* and position 0, and the position has moved by size.
C4_SubargExactBoundary ==
    last.op = "subarg" =>
        /\ Succeeded <=> last.n <= PreLeft
        /\ Succeeded =>
              /\ last.child # <<>>
              /\ Len(Returned._args) = last.n
              /\ \A i \in 1..last.n : Returned._args[i] = PreArgs[PreIndex + i]
              /\ Returned._program_name = <<>>
              /\ Returned._index = 0
              /\ cur._index = PreIndex + last.n
              /\ cur._args = PreArgs
              /\ (last.n = PreLeft => size(cur) = 0)
        /\ ~Succeeded => cur = last.pre

\* C4 witness: subarg took all the strings left, after one was consumed.
C4_Witness ==
    /\ last.op = "subarg"
    /\ Succeeded
    /\ last.n = PreLeft
    /\ last.n > 0
    /\ PreIndex > 0

\* The predicate handed to the last subarg_until / subcmd_until.
LastPredicate == last.s[1]

\* The number of strings of strs after position from (0-based) that come
\* before the first one the predicate holds of: all of them if it holds of
\* none.
MaximalPrefix(strs, from, predicate) ==
    CHOOSE k \in 0..(Len(strs) - from) :
        /\ \A j \in 1..k : ~Holds(predicate, strs[from + j])
        /\ k = Len(strs) - from \/ Holds(predicate, strs[from + k + 1])

\* C5: subarg_until(predicate) never fails; the args returned has an empty
\* name and holds the strings from the position up to, and without, the first
\* one the predicate holds of, all that are left if there is none; the position
\* moves by that many, so that a string the predicate holds of is the next
\* peek(); with nothing left the result is empty and the object unchanged.
C5_SubargUntilMaximalPrefix ==
    last.op = "subarg_until" =>
        LET k == MaximalPrefix(PreArgs, PreIndex, LastPredicate)
        IN  /\ Succeeded
            /\ last.child # <<>>
            /\ Returned._program_name = <<>>
            /\ Returned._index = 0
            /\ Returned._args = SubSeq(PreArgs, PreIndex + 1, PreIndex + k)
            /\ cur._index = PreIndex + k
            /\ cur._args = PreArgs
            /\ k < PreLeft =>
                  /\ peek(cur).status = "ok"
                  /\ Holds(LastPredicate, peek(cur).ret[1])
            /\ k = PreLeft => size(cur) = 0
            /\ PreLeft = 0 => (Returned._args = <<>> /\ cur = last.pre)

\* C5 witness: subarg_until stopped at a string the predicate holds of, after
\* taking at least one string.
C5_Witness ==
    /\ last.op = "subarg_until"
    /\ Len(Returned._args) >= 1
    /\ size(cur) >= 1

\* C6: a successful subcmd(n) moves the position by n + 1 and a successful
\* subcmd_until(p) by 1 + the number of strings taken; the name of the args
\* returned is the string at the position before the call, which is not among
\* the strings returned and, for subcmd_until, is not tested with p.
C6_SubcmdNameToken ==
    /\ (last.op = "subcmd" /\ Succeeded) =>
          /\ cur._index = PreIndex + last.n + 1
          /\ last.child # <<>>
          /\ Returned._program_name = PreArgs[PreIndex + 1]
          /\ Returned._args = SubSeq(PreArgs, PreIndex + 2,
                                     PreIndex + 1 + last.n)
    /\ (last.op = "subcmd_until" /\ Succeeded) =>
          LET k == MaximalPrefix(PreArgs, PreIndex + 1, LastPredicate)
          IN  /\ last.child # <<>>
              /\ cur._index = PreIndex + 1 + Len(Returned._args)
              /\ Returned._program_name = PreArgs[PreIndex + 1]
              /\ Returned._args = SubSeq(PreArgs, PreIndex + 2,
                                         PreIndex + 1 + k)

\* C6 witness: subcmd_until took a name the predicate holds of and returned
\* a string after it.
C6_Witness ==
    /\ last.op = "subcmd_until"
    /\ Succeeded
    /\ Holds(LastPredicate, Returned._program_name)
    /\ Len(Returned._args) >= 1

\* C7: next() with a string left returns the string at the position, the one
\* peek() returns, and moves the position by one, and peek(-1) then returns
\* that string; with nothing left it fails and the position stays.
C7_NextIsPeekThenShift ==
    last.op = "next" =>
        IF PreLeft >= 1
        THEN /\ Succeeded
             /\ last.ret = <<PreArgs[PreIndex + 1]>>
             /\ last.ret = peek(last.pre).ret
             /\ cur._index = PreIndex + 1
             /\ cur._args = PreArgs
             /\ peek_index(cur, 0 - 1).status = "ok"
             /\ peek_index(cur, 0 - 1).ret = last.ret
        ELSE /\ Failed
             /\ cur._index = PreIndex

\* C7 witness: next() returned the second string of two different ones.
C7_Witness ==
    /\ last.op = "next"
    /\ Succeeded
    /\ PreIndex = 1
    /\ PreArgs[1] # PreArgs[2]

\* C8: peek(offset) fails exactly if position + offset < 0 or position +
\* offset >= number of strings, and returns the string at position + offset
\* otherwise; peek(0) does what peek() does; the object is never changed.
C8_PeekIndexBounds ==
    last.op = "peek_index" =>
        /\ Failed <=> (PreIndex + last.n < 0 \/ PreIndex + last.n >= Len(PreArgs))
        /\ ~Failed => (Succeeded /\ last.ret = <<PreArgs[PreIndex + last.n + 1]>>)
        /\ last.n = 0 => (/\ last.ret = peek(last.pre).ret
                          /\ last.status = peek(last.pre).status)
        /\ cur = last.pre

\* C8 witness: a peek with a negative offset returned a consumed string.
C8_Witness ==
    /\ last.op = "peek_index"
    /\ last.n < 0
    /\ Succeeded
    /\ last.ret = <<PreArgs[1]>>
    /\ PreIndex = 2

\* The string the last extraction consumed.
Consumed == PreArgs[PreIndex + 1]

\* s is a decimal numeral: an optional sign, then digits and nothing else.
IsNumeral(s) ==
    /\ Len(s) >= 1
    /\ LET digits == IF s[1] \in {"+", "-"} THEN Tail(s) ELSE s
       IN  Len(digits) >= 1 /\ \A i \in 1..Len(digits) : IsDigit(digits[i])

\* The length of the longest numeral a string starts with, 0 if none.
NumeralLen(s) ==
    CHOOSE k \in 0..Len(s) :
        /\ k = 0 \/ IsNumeral(SubSeq(s, 1, k))
        /\ \A j \in (k + 1)..Len(s) : ~IsNumeral(SubSeq(s, 1, j))

\* The number a sequence of digits denotes, read from its last digit.
RECURSIVE DigitsNumber(_)
DigitsNumber(s) ==
    IF s = <<>>
    THEN 0
    ELSE 10 * DigitsNumber(SubSeq(s, 1, Len(s) - 1)) + DigitVal(s[Len(s)])

\* The number a numeral denotes.
NumeralNumber(s) ==
    IF s[1] = "-" THEN 0 - DigitsNumber(Tail(s))
    ELSE IF s[1] = "+" THEN DigitsNumber(Tail(s)) ELSE DigitsNumber(s)

\* The string has no character but white space.
Blank(s) == \A i \in 1..Len(s) : IsSpace(s[i])

ErrorLine(str) == Line(cur._log, "Error: could not parse", str, 0)

WarningLine(str) == Line(cur._log, "Warning: partially parsed string", str, 0)

\* What every extraction from a non-empty args does, and what it does with a
\* string that starts with a numeral.
ExtractConsumesAndConverts ==
    LET k == NumeralLen(Consumed)
    IN  /\ Succeeded
        /\ cur._index = PreIndex + 1
        /\ cur._args = PreArgs
        /\ (k > 0 /\ k < Len(Consumed)) =>
              /\ target = NumeralNumber(SubSeq(Consumed, 1, k))
              /\ written = <<WarningLine(SubSeq(Consumed, k + 1, Len(Consumed)))>>
        /\ (k > 0 /\ k = Len(Consumed)) =>
              /\ target = NumeralNumber(Consumed)
              /\ written = <<>>

Wrote(msg) == \E i \in 1..Len(written) : written[i].msg = msg

\* C10: a range extraction that parsed a value writes '... must be smaller
\* than <max>' exactly if min # max and the value is greater than max, for
\* min < max and for min > max alike; with min = max it never does.
C10_UpperBoundChecked ==
    (last.op = "extract_range" /\ Succeeded /\ NumeralLen(Consumed) > 0) =>
        /\ Wrote("must be smaller than") <=> (last.n # last.m /\ target > last.m)
        /\ \A i \in 1..Len(written) :
              written[i].msg = "must be smaller than" => written[i].bound = last.m

\* The construction of the vector in subarg was reached with a reversed
\* range: the sum _index + size had wrapped.
ReversedRangeReached ==
    last.op \in {"subarg", "subcmd"} /\ last.status \in VectorRangeFailures

\* The last call was a range extraction that read a number from its string.
RangeParsed ==
    last.op = "extract_range" /\ Succeeded /\ NumeralLen(Consumed) > 0

\* C11: the two range checks are independent: with bounds min > max and a
\* parsed value between them (max < value < min) one range extraction writes
\* both '... must be greater than <min>' and '... must be smaller than <max>'.
C11_BothRangeMessages ==
    (RangeParsed /\ last.n > last.m /\ last.m < target /\ target < last.n) =>
        /\ Wrote("must be greater than")
        /\ Wrote("must be smaller than")

\* The lines of the last call that hold these words.
LinesOf(msg) == {i \in 1..Len(written) : written[i].msg = msg}

\* C12: whenever the string converts to a value, the range extraction leaves
\* that value in the target, in or out of the range, moves the position by
\* one, does not throw, and writes '... must be greater than <min>' exactly
\* when the value is below min.
C12_RangeIsAdvisory ==
    (last.op = "extract_range" /\ PreLeft >= 1 /\ NumeralLen(Consumed) > 0) =>
        /\ Succeeded
        /\ target = NumeralNumber(SubSeq(Consumed, 1, NumeralLen(Consumed)))
        /\ cur._index = PreIndex + 1
        /\ cur._args = PreArgs
        /\ Wrote("must be greater than") <=> target < last.n
        /\ Cardinality(LinesOf("must be greater than")) <= 1
        /\ \A i \in LinesOf("must be greater than") :
              written[i].bound = last.n /\ written[i].sink = cur._log

\* C12 witness: a number above the range was read, reported and kept.
C12_Witness ==
    /\ RangeParsed
    /\ last.n < last.m
    /\ target > last.m
    /\ Wrote("must be smaller than")
    /\ ~Wrote("must be greater than")
    /\ NumeralLen(Consumed) = Len(Consumed)

\* The lines of the last call that report a value outside the range.
RangeLines ==
    LinesOf("must be greater than") \cup LinesOf("must be smaller than")

\* The words 'Error: argument to <t>', t the string before the value.
ArgumentTo(t) == <<"Error: argument to ">> \o t

\* C13 as stated: the words of a range message are chosen from the state
\* after the value was consumed: if size() < total_size() then, they name the
\* string before the value, 'Error: number' otherwise.
C13_PrefixFromStateAfter ==
    (last.op = "extract_range" /\ Succeeded) =>
        \A i \in RangeLines :
            IF size(cur) < total_size(cur)
            THEN PreIndex >= 1 /\ written[i].text = ArgumentTo(PreArgs[PreIndex])
            ELSE written[i].text = <<"Error: number">>

\* C13 amended: the words are chosen from the state before the value is
\* consumed: if size() < total_size() then, that is if a string was consumed
\* before the call, they name the string before the value, and they are
\* 'Error: number' exactly when nothing was consumed before the call.
C13_PrefixFromStateBefore ==
    (last.op = "extract_range" /\ Succeeded) =>
        \A i \in RangeLines :
            IF size(last.pre) < total_size(last.pre)
            THEN PreIndex >= 1 /\ written[i].text = ArgumentTo(PreArgs[PreIndex])
            ELSE PreIndex = 0 /\ written[i].text = <<"Error: number">>

\* C13 witness: the value was the first string, and the message about it
\* starts with 'Error: number' though a string has been consumed by then.
C13_Witness ==
    /\ last.op = "extract_range"
    /\ Succeeded
    /\ PreIndex = 0
    /\ size(cur) < total_size(cur)
    /\ RangeLines # {}
    /\ \A i \in RangeLines : written[i].text = <<"Error: number">>

\* A message named the string before the value.
C13_NamedArgument ==
    /\ last.op = "extract_range"
    /\ \E i \in RangeLines : written[i].text = ArgumentTo(<<"-", "v">>)

\* C15: push_back(str) succeeds and changes the end of the strings only:
\* position, name, log and the strings held are as before, total_size() and
\* size() are one more, the string is the last one, and an args with nothing
\* left has it as its next peek().
C15_PushBackAppends ==
    last.op = "push_back" =>
        /\ Succeeded
        /\ cur._index = PreIndex
        /\ cur._program_name = last.pre._program_name
        /\ cur._log = last.pre._log
        /\ total_size(cur) = total_size(last.pre) + 1
        /\ size(cur) = size(last.pre) + 1
        /\ \A i \in 1..Len(PreArgs) : cur._args[i] = PreArgs[i]
        /\ cur._args[Len(cur._args)] = last.s
        /\ PreLeft = 0 => (/\ peek(cur).status = "ok"
                           /\ peek(cur).ret = <<last.s>>)

\* C15 witness: a string was pushed to an args with all its strings consumed.
C15_Witness ==
    /\ last.op = "push_back"
    /\ PreLeft = 0
    /\ PreIndex > 0

\* The last step was a call on the object, not its construction nor the
\* turn to another object.
CalledOnObject == last.op \notin {"args", "copy", "keep", "turn"}

\* C16: from one state to the next the position never decreases, the strings
\* held are never changed nor removed, and only push_back adds one.
C16_PositionAndStringsOnlyGrow ==
    CalledOnObject =>
        /\ cur._index >= PreIndex
        /\ Len(cur._args) >= Len(PreArgs)
        /\ \A i \in 1..Len(PreArgs) : cur._args[i] = PreArgs[i]
        /\ Len(cur._args) > Len(PreArgs) =>
              (last.op = "push_back" /\ Len(cur._args) = Len(PreArgs) + 1)

\* C16 witness: a subcmd_until moved the position by two.
C16_Witness ==
    /\ last.op = "subcmd_until"
    /\ cur._index = PreIndex + 2

\* C17: subarg(size) throws std::out_of_range for every size greater than
\* size(), sizes near the largest std::size_t with a position > 0 included.
C17_SubargRejectsEverySizeTooLarge ==
    (last.op = "subarg" /\ last.n > PreLeft) => Failed

\* The last call was an extraction, plain or with a range.
Extraction == last.op \in {"extract", "extract_range"}

\* C18: an extraction throws std::out_of_range exactly if no string is left
\* when it is called; then nothing is written, the target and the object are
\* as before, also when strings were consumed before.
C18_ExtractionThrowsOnlyWhenEmpty ==
    Extraction =>
        /\ last.status \in {"ok", "out_of_range"}
        /\ Failed <=> PreLeft = 0
        /\ Failed => (/\ written = <<>>
                      /\ target = last.preTarget
                      /\ cur = last.pre)

\* C18 witness: a range extraction failed after strings were consumed.
C18_Witness ==
    /\ last.op = "extract_range"
    /\ Failed
    /\ PreIndex > 0

\* C19: a range extraction of a string that is no number writes the
\* 'could not parse' line and then compares the value the target holds, which
\* does not come from the string, with min and max as for any other value.
C19_RangeCheckedAfterParseError ==
    (last.op = "extract_range" /\ PreLeft >= 1 /\ NumeralLen(Consumed) = 0) =>
        /\ Succeeded
        /\ Len(written) >= 1
        /\ written[1] = ErrorLine(Consumed)
        /\ target = IF Blank(Consumed) THEN last.preTarget ELSE 0
        /\ Wrote("must be greater than") <=> target < last.n
        /\ Wrote("must be smaller than") <=>
              (last.n < last.m /\ last.m < target)
        /\ RangeLines \subseteq 2..Len(written)

\* C19 witness: one string that is no number gave the 'could not parse' line
\* followed by a 'must be greater than' line.
C19_Witness ==
    /\ last.op = "extract_range"
    /\ Len(written) = 2
    /\ written[1].msg = "Error: could not parse"
    /\ written[2].msg = "must be greater than"

\* A string that is no number gave the 'could not parse' line followed by a
\* 'must be smaller than' line.
C19_ParseErrorThenSmaller ==
    /\ last.op = "extract_range"
    /\ Len(written) = 2
    /\ written[1].msg = "Error: could not parse"
    /\ written[2].msg = "must be smaller than"

\* The strings, the position and the name of x are those of y.
SameStrings(x, y) ==
    /\ x._args = y._args
    /\ x._index = y._index
    /\ x._program_name = y._program_name

C14_ParentCalled ==
    /\ kept # <<>>
    /\ kept[1].returned
    /\ kept[1].object._program_name \in PairTokens
    /\ last.op \in {"shift", "next", "subarg", "subcmd_until"}
    /\ cur._index > PreIndex

\* The calls that return an args.
SlicingOps == {"subarg", "subarg_until", "subcmd", "subcmd_until"}

\* The number of strings the last call put in the args it returned: those the
\* position moved over, the name of a subcmd not counted.
Taken ==
    cur._index - PreIndex
        - (IF last.op \in {"subcmd", "subcmd_until"} THEN 1 ELSE 0)

\* C20: an args returned by subarg, subarg_until, subcmd or subcmd_until has
\* the log of a default constructed args, std::cerr, whatever stream log()
\* set on the args it is taken from; its position is 0, it holds exactly the
\* strings taken, and the log of the args it is taken from stays as it is.
C20_ReturnedHasDefaultLog ==
    last.op \in SlicingOps =>
        /\ cur._log = last.pre._log
        /\ Succeeded =>
              /\ last.child # <<>>
              /\ Returned._log = args_default._log
              /\ Returned._index = 0
              /\ total_size(Returned) = Taken
              /\ last.op \in {"subarg", "subcmd"} => Taken = last.n
              /\ Returned._args =
                    SubSeq(PreArgs, cur._index - Taken + 1, cur._index)

\* C20 witness: strings were taken from an args whose log is the caller's
\* stream.
C20_Witness ==
    /\ last.op \in SlicingOps
    /\ Succeeded
    /\ last.pre._log = "os"
    /\ total_size(Returned) >= 1

====
